---- MODULE Spec2Model ----
(***************************************************************************)
(* Payment gateway microservice: the dispatcher endpoints of main.py and   *)
(* the two gateway adapters (gateways/cardconnect.py, gateways/payload.py).*)
(*                                                                         *)
(* One request is one invocation of an endpoint handler.  A handler runs   *)
(* synchronously until it blocks on an upstream call; the model has one    *)
(* action for the entry of each handler (up to its first upstream call or  *)
(* its answer) and one action per upstream call that receives the          *)
(* upstream's answer and runs the handler on to the next call or to the    *)
(* HTTP response.  The upstream's answers are the environment's choice.    *)
(***************************************************************************)
EXTENDS Integers, Sequences, FiniteSets, TLC

VARIABLES
    frame,       \* per worker: the handler's and the adapter's local variables
    pl_api_key   \* the vendor SDK's module-level attribute payload.api_key

vars == <<frame, pl_api_key>>

(***************************************************************************)
(* Python values.  A nullable text is a string or None; a JSON object's    *)
(* missing key is Absent; an Optional[float] is <<>> or <<x>>.             *)
(***************************************************************************)
None == "<None>"
Absent == "<absent>"
NoneAmount == << >>
SomeAmount(x) == << x >>

\* d.get(key, None) used as a condition: present, not None, not empty
Truthy(v) == v # Absent /\ v # None /\ v # ""

\* a message is None, a str, or a dict taken from a vendor fault
NoneMessage == [type |-> "NoneType", text |-> ""]
Str(s) == [type |-> "str", text |-> s]
DictMessage(s) == [type |-> "dict", text |-> s]

StartsWith(s, p) == Len(s) >= Len(p) /\ SubSeq(s, 1, Len(p)) = p

(***************************************************************************)
(* schema.py                                                               *)
(***************************************************************************)
GatewayType == [Payload |-> 1, CardConnect |-> 2]

GatewayTypeValues == {GatewayType[n] : n \in DOMAIN GatewayType}

GatewayTypeName(v) == CHOOSE n \in DOMAIN GatewayType : GatewayType[n] = v

GatewayCredentials ==
    [Payload |-> {"apiKey", "processingId"},
     CardConnect |-> {"username", "password", "merchantId"}]

CurrencyCode == [USD |-> 840, CAD |-> 124, GBP |-> 826, EUR |-> 978]

CurrencyCodeValues == {CurrencyCode[n] : n \in DOMAIN CurrencyCode}

GatewayResponses ==
    [Approved |-> 200, BadRequest |-> 400, Unauthorized |-> 401,
     Forbidden |-> 403, NotFound |-> 404, Conflict |-> 409,
     InvalidAttributes |-> 422, TooManyRequests |-> 429,
     InternalServerError |-> 500, ServiceUnavailable |-> 503]

(***************************************************************************)
(* gateways/cardconnect.py: vendor vocabulary                              *)
(***************************************************************************)
CardConnectResponseStatusType == [Approved |-> "A", Retry |-> "B", Declined |-> "C"]
CardConnectVoidableStatusType == [Voidable |-> "Y", NotVoidable |-> "N"]
CardConnectRefundableStatusType == [Refundable |-> "Y", NotRefundable |-> "N"]
CardConnectVoidRespAuthCodeType == [Successful |-> "REVERS", Unsuccessful |-> "NULL"]

(***************************************************************************)
(* What the CardConnect REST service can answer to one call: the call      *)
(* raises (no connection: there is no response object), or an HTTP         *)
(* response with a status and a text.  The text is empty, not JSON, JSON   *)
(* that is not an object, or a JSON object with some of the vendor's keys. *)
(***************************************************************************)
HttpStatusCodes == {200, 204, 401, 404, 500, 502, 503}

RetrefValues == {Absent, "RETREF_NEW"}
ResptextValues == {Absent, "Do not honor"}
RespstatValues == {Absent, "A", "B", "C"}
AuthcodeValues == {Absent, "REVERS", "NULL", "PPS123"}
YesNoValues == {Absent, "Y", "N"}

JsonText(kind) ==
    [json |-> kind, respstat |-> Absent, resptext |-> Absent, retref |-> Absent,
     authcode |-> Absent, voidable |-> Absent, refundable |-> Absent]

\* the texts of a response whose status is not 200: only their shape is read
ErrorTexts == {JsonText("invalid"), JsonText("object")}

MalformedTexts == {JsonText("empty"), JsonText("invalid"), JsonText("array")}

AuthTexts ==
    MalformedTexts \cup
    {[JsonText("object") EXCEPT !.respstat = a, !.resptext = t, !.retref = x] :
        a \in RespstatValues, t \in ResptextValues, x \in RetrefValues}

InquireTexts ==
    MalformedTexts \cup
    {[JsonText("object") EXCEPT !.respstat = a, !.voidable = v, !.refundable = f] :
        a \in RespstatValues, v \in YesNoValues, f \in YesNoValues}

VoidTexts ==
    MalformedTexts \cup
    {[JsonText("object") EXCEPT !.respstat = a, !.authcode = c, !.resptext = t, !.retref = x] :
        a \in RespstatValues, c \in AuthcodeValues, t \in ResptextValues, x \in RetrefValues}

RefundTexts == AuthTexts

NoResponse == [raised |-> TRUE, status_code |-> 0, text |-> JsonText("empty")]

HttpResponses(texts) ==
    {NoResponse} \cup
    {[raised |-> FALSE, status_code |-> 200, text |-> t] : t \in texts} \cup
    {[raised |-> FALSE, status_code |-> s, text |-> t] :
        s \in HttpStatusCodes \ {200}, t \in ErrorTexts}

\* json.loads(text) returns; otherwise it raises json.JSONDecodeError
json_loads_ok(text) == text.json \in {"array", "object"}

\* the parsed value has a .get method
IsDict(text) == text.json = "object"

\* bool(response) of requests.Response is response.ok; None is falsy
ResponseTruthy(r) == ~r.raised /\ ~(r.status_code >= 400 /\ r.status_code < 600)

\* bool(response.text)
TextTruthy(r) == r.text.json # "empty"

(***************************************************************************)
(* gateways/cardconnect.py: the audit trail gateway_response_data.  An     *)
(* entry records what was appended and for which upstream call.            *)
(***************************************************************************)
Entry(tag, op) == [tag |-> tag, op |-> op]

append_json_or_string_to_array(r, array, op) ==
    IF json_loads_ok(r.text)
    THEN Append(array, Entry("json", op))
    ELSE array \o << Entry("decode_error", op), Entry("text", op) >>

\* the locals of an adapter method at its entry
AdapterLocals ==
    [transaction_id |-> None,
     processing_status |-> None,
     http_status_code |-> GatewayResponses.Approved,
     success |-> FALSE,
     message |-> NoneMessage,
     gateway_response_data |-> << >>,
     raised |-> FALSE]

(***************************************************************************)
(* CardConnectProcessor.process_payment                                    *)
(***************************************************************************)
\* CurrencyCode(payment.currencyType) raises ValueError for an unknown code
CurrencyCodeKnown(payment) == payment.currencyType \in CurrencyCodeValues

\* the JSON sent to the auth endpoint
cc_auth_data(self, payment) ==
    [op |-> "auth",
     auth |-> self.usr,
     merchid |-> self.merchantId,
     retref |-> None,
     amount |-> payment.amount,
     description |-> IF Truthy(payment.comment) THEN payment.comment ELSE ""]

\* mutant: the handler catches only the connection fault of requests.post
cc_payment_except_narrow(l, r) ==
    IF r.raised
    THEN [l EXCEPT
            !.gateway_response_data = Append(@, Entry("exception", "auth")),
            !.http_status_code = GatewayResponses.InternalServerError,
            !.message = Str("There was an internal service error with your request.")]
    ELSE [l EXCEPT !.raised = TRUE]

\* except Exception as e: (process_payment)
cc_payment_except(l, r) ==
    LET logged == Append(l.gateway_response_data, Entry("exception", "auth"))
    IN  [l EXCEPT
            !.gateway_response_data =
                IF ResponseTruthy(r) /\ TextTruthy(r)
                THEN append_json_or_string_to_array(r, logged, "auth")
                ELSE logged,
            !.http_status_code = GatewayResponses.InternalServerError,
            !.message = Str("There was an internal service error with your request.")]

\* mutant: the vendor's response text is left out of the message
cc_payment_decline_message_without_text(b) ==
    IF Truthy(b.respstat) /\ b.respstat = CardConnectResponseStatusType.Retry
    THEN "Please retry the request."
    ELSE "Authorization failed."

\* the message of a retried or declined authorization
cc_payment_decline_message(b) ==
    LET base ==
            IF Truthy(b.respstat) /\ b.respstat = CardConnectResponseStatusType.Retry
            THEN "Please retry the request."
            ELSE "Authorization failed."
    IN  IF Truthy(b.resptext) THEN base \o " " \o b.resptext \o "." ELSE base

\* mutant: retref is read in the decline branch only
cc_payment_interpret_retref_on_decline(l, b) ==
    IF Truthy(b.respstat) /\ b.respstat = CardConnectResponseStatusType.Approved
    THEN [l EXCEPT !.success = TRUE, !.message = Str("Success.")]
    ELSE [l EXCEPT
            !.success = FALSE,
            !.http_status_code = GatewayResponses.BadRequest,
            !.message = Str(cc_payment_decline_message(b)),
            !.transaction_id = IF Truthy(b.retref) THEN b.retref ELSE @]

\* mutant: a retried or declined authorization keeps the initial status
cc_payment_interpret_decline_keeps_status(l, b) ==
    LET approved ==
            Truthy(b.respstat) /\ b.respstat = CardConnectResponseStatusType.Approved
        l1 ==
            IF approved
            THEN [l EXCEPT !.success = TRUE, !.message = Str("Success.")]
            ELSE [l EXCEPT
                    !.success = FALSE,
                    !.message = Str(cc_payment_decline_message(b))]
    IN  IF Truthy(b.retref) THEN [l1 EXCEPT !.transaction_id = b.retref] ELSE l1

\* a 200 answer parsed into a JSON object b: the tri-state respstat
cc_payment_interpret(l, b) ==
    LET approved ==
            Truthy(b.respstat) /\ b.respstat = CardConnectResponseStatusType.Approved
        l1 ==
            IF approved
            THEN [l EXCEPT !.success = TRUE, !.message = Str("Success.")]
            ELSE [l EXCEPT
                    !.success = FALSE,
                    !.http_status_code = GatewayResponses.BadRequest,
                    !.message = Str(cc_payment_decline_message(b))]
    IN  IF Truthy(b.retref) THEN [l1 EXCEPT !.transaction_id = b.retref] ELSE l1

\* mutant: a network error is reported as a bad request
cc_payment_transport_failure_as_bad_request(l, r) ==
    [l EXCEPT
        !.gateway_response_data = append_json_or_string_to_array(r, @, "auth"),
        !.success = FALSE,
        !.http_status_code =
            IF r.status_code = GatewayResponses.Unauthorized
            THEN r.status_code
            ELSE GatewayResponses.BadRequest,
        !.message =
            IF r.status_code = GatewayResponses.Unauthorized
            THEN Str("There was an authorization error with your request.")
            ELSE Str("There was a network error with your request.")]

\* a response whose status is not 200
cc_payment_transport_failure(l, r) ==
    [l EXCEPT
        !.gateway_response_data = append_json_or_string_to_array(r, @, "auth"),
        !.success = FALSE,
        !.http_status_code = r.status_code,
        !.message =
            IF r.status_code = GatewayResponses.Unauthorized
            THEN Str("There was an authorization error with your request.")
            ELSE Str("There was a network error with your request.")]

\* the body of the try block from the answer of requests.post on
cc_process_payment_response(l, r) ==
    IF r.raised THEN cc_payment_except(l, r)
    ELSE IF r.status_code = GatewayResponses.Approved
    THEN IF ~json_loads_ok(r.text) THEN cc_payment_except(l, r)
         ELSE LET l1 == [l EXCEPT !.gateway_response_data = Append(@, Entry("json", "auth"))]
              IN  IF ~IsDict(r.text) THEN cc_payment_except(l1, r)
                  ELSE cc_payment_interpret(l1, r.text)
    ELSE cc_payment_transport_failure(l, r)

\* the dict built in the finally block (paymentTransactionId / refundTransactionId)
cc_result(l, request) ==
    [returned |-> ~l.raised,
     success |-> l.success,
     transactionId |-> l.transaction_id,
     statusCode |-> ToString(l.http_status_code),
     gatewayHttpStatusCode |-> l.http_status_code,
     responseMessage |-> l.message,
     merchantAccountId |-> request.merchantAccountId,
     gatewayResponseData |-> [type |-> "list", items |-> l.gateway_response_data]]

(***************************************************************************)
(* CardConnectProcessor.process_refund                                     *)
(***************************************************************************)
cc_inquire_data(self, refund) ==
    [op |-> "inquire", auth |-> self.usr, merchid |-> self.merchantId,
     retref |-> refund.paymentTransactionId, amount |-> NoneAmount, description |-> None]

\* no amount in the void request: the full amount is voided
cc_void_data(self, refund) ==
    [op |-> "void", auth |-> self.usr, merchid |-> self.merchantId,
     retref |-> refund.paymentTransactionId, amount |-> NoneAmount, description |-> None]

\* mutant: the refund request carries no amount, as the void request does
cc_refund_data_without_amount(self, refund) ==
    [op |-> "refund", auth |-> self.usr, merchid |-> self.merchantId,
     retref |-> refund.paymentTransactionId, amount |-> NoneAmount, description |-> None]

cc_refund_data(self, refund) ==
    [op |-> "refund", auth |-> self.usr, merchid |-> self.merchantId,
     retref |-> refund.paymentTransactionId, amount |-> refund.amount, description |-> None]

\* the three except Exception handlers of process_refund; op names the call
cc_refund_except_message(op) ==
    CASE op = "inquire" ->
            "An unknown error occurred while retrieving your payment status. The refund was unsuccessful."
      [] op = "void" -> "An unknown error occurred while processing void transaction."
      [] op = "refund" -> "An unknown error occurred while processing refund transaction."

cc_refund_except(l, r, refund, op) ==
    LET logged == Append(l.gateway_response_data, Entry("exception", op))
    IN  [l EXCEPT
            !.gateway_response_data =
                IF ResponseTruthy(r) /\ TextTruthy(r)
                THEN append_json_or_string_to_array(r, logged, op)
                ELSE logged,
            !.message = Str(cc_refund_except_message(op)),
            !.http_status_code = GatewayResponses.InternalServerError,
            !.transaction_id = refund.paymentTransactionId]

\* mutant: a transaction that is not voidable is refunded without a look at refundable
cc_refund_decision_unchecked_refund(b) ==
    IF Truthy(b.respstat) /\ b.respstat = CardConnectResponseStatusType.Approved
    THEN IF Truthy(b.voidable) /\ b.voidable = CardConnectVoidableStatusType.Voidable
         THEN "void"
         ELSE "refund"
    ELSE "not_authorized"

\* mutant: refundable is checked before voidable
cc_refund_decision_refundable_first(b) ==
    IF Truthy(b.respstat) /\ b.respstat = CardConnectResponseStatusType.Approved
    THEN IF Truthy(b.refundable) /\ b.refundable = CardConnectRefundableStatusType.Refundable
         THEN "refund"
         ELSE IF Truthy(b.voidable) /\ b.voidable = CardConnectVoidableStatusType.Voidable
         THEN "void"
         ELSE "neither"
    ELSE "not_authorized"

\* mutant: the authorization status of the inquiry is not looked at
cc_refund_decision_ignores_respstat(b) ==
    IF Truthy(b.voidable) /\ b.voidable = CardConnectVoidableStatusType.Voidable
    THEN "void"
    ELSE IF Truthy(b.refundable) /\ b.refundable = CardConnectRefundableStatusType.Refundable
    THEN "refund"
    ELSE "neither"

\* what the 200 inquiry answer b leads to: respstat, then voidable, then refundable
cc_refund_decision(b) ==
    IF Truthy(b.respstat) /\ b.respstat = CardConnectResponseStatusType.Approved
    THEN IF Truthy(b.voidable) /\ b.voidable = CardConnectVoidableStatusType.Voidable
         THEN "void"
         ELSE IF Truthy(b.refundable) /\ b.refundable = CardConnectRefundableStatusType.Refundable
         THEN "refund"
         ELSE "neither"
    ELSE "not_authorized"

\* mutant: the 409 answers are given without a message
cc_refund_conflict_without_message(l, refund, decision) ==
    [l EXCEPT
        !.http_status_code = GatewayResponses.Conflict,
        !.transaction_id = refund.paymentTransactionId]

\* the two 409 answers that follow the inquiry without a further call
cc_refund_conflict(l, refund, decision) ==
    [l EXCEPT
        !.message =
            IF decision = "neither"
            THEN Str("The refund cannot be processed at this time.")
            ELSE Str("The payment requested was not authorized or does not exist."),
        !.http_status_code = GatewayResponses.Conflict,
        !.transaction_id = refund.paymentTransactionId]

\* 401 and the other non-200 statuses of the three calls of process_refund
cc_refund_unauthorized_message(op) ==
    CASE op = "inquire" ->
            "There was an authorization error while accessing your previous payment status."
      [] op = "void" -> "There was an authorization error while processing a void request."
      [] op = "refund" -> "There was an authorization error while processing the refund request."

cc_refund_error_message(op) ==
    CASE op = "inquire" ->
            "Unable to complete request for payment status. Please contact BlueVolt support."
      [] op = "void" -> "Unable to complete void transaction."
      [] op = "refund" -> "Unable to complete refund transaction"

cc_refund_transport_failure(l, r, refund, op) ==
    IF r.status_code = GatewayResponses.Unauthorized
    THEN [l EXCEPT
            !.gateway_response_data = append_json_or_string_to_array(r, @, op),
            !.http_status_code = r.status_code,
            !.message = Str(cc_refund_unauthorized_message(op))]
    ELSE [l EXCEPT
            !.gateway_response_data = append_json_or_string_to_array(r, @, op),
            !.http_status_code = r.status_code,
            !.transaction_id = refund.paymentTransactionId,
            !.message = Str(cc_refund_error_message(op))]

\* which branch of the if/elif/else at lines 272-306 a 200 void answer b takes
cc_void_branch(b) ==
    LET approved ==
            Truthy(b.respstat) /\ b.respstat = CardConnectResponseStatusType.Approved
    IN  IF approved /\ Truthy(b.authcode)
              /\ b.authcode = CardConnectVoidRespAuthCodeType.Successful
        THEN "successful"
        ELSE IF approved /\ Truthy(b.authcode)
              /\ b.authcode = CardConnectVoidRespAuthCodeType.Unsuccessful
        THEN "unsuccessful"
        ELSE IF ~Truthy(b.authcode) /\ approved
        THEN "assumed"
        ELSE "declined"

\* lines 272-306: the locals when the branch ends, and whether it ended by raising
\* (void_resp_json['resptext'] raises KeyError, None += str raises TypeError)
cc_void_interpret(l, b) ==
    LET branch == cc_void_branch(b)
        retry == Truthy(b.respstat) /\ b.respstat = CardConnectResponseStatusType.Retry
    IN  CASE branch = "successful" ->
                [exc |-> FALSE,
                 l |-> [l EXCEPT !.success = TRUE,
                                 !.message = Str("Successfully voided transaction.")]]
          [] branch = "unsuccessful" ->
                IF b.resptext = Absent
                THEN [exc |-> TRUE,
                      l |-> [l EXCEPT !.message = Str("Void transaction was unsuccessful.")]]
                ELSE [exc |-> FALSE,
                      l |-> [l EXCEPT
                                !.message = Str("Void transaction was unsuccessful." \o " " \o b.resptext),
                                !.http_status_code = GatewayResponses.BadRequest]]
          [] branch = "assumed" ->
                [exc |-> FALSE,
                 l |-> [l EXCEPT !.success = TRUE, !.message = Str("success")]]
          [] branch = "declined" ->
                LET l1 == IF retry
                          THEN [l EXCEPT !.message = Str("Unable to complete void transaction.")]
                          ELSE l   \* line 303 is an expression statement: no assignment
                IN  IF b.resptext = Absent \/ l1.message.type # "str"
                    THEN [exc |-> TRUE, l |-> l1]
                    ELSE [exc |-> FALSE,
                          l |-> [l1 EXCEPT
                                    !.message = Str(l1.message.text \o " " \o b.resptext),
                                    !.http_status_code = GatewayResponses.Conflict]]

\* the inner try block of the void path from the answer of requests.post on
cc_process_void_response(l, r, refund) ==
    IF r.raised THEN cc_refund_except(l, r, refund, "void")
    ELSE IF r.status_code = GatewayResponses.Approved
    THEN IF ~json_loads_ok(r.text) THEN cc_refund_except(l, r, refund, "void")
         ELSE LET l1 == [l EXCEPT !.gateway_response_data = Append(@, Entry("json", "void"))]
              IN  IF ~IsDict(r.text) THEN cc_refund_except(l1, r, refund, "void")
                  ELSE LET i == cc_void_interpret(l1, r.text)
                       IN  IF i.exc \/ r.text.retref = Absent   \* line 307: ['retref']
                           THEN cc_refund_except(i.l, r, refund, "void")
                           ELSE [i.l EXCEPT !.transaction_id = r.text.retref]
    ELSE cc_refund_transport_failure(l, r, refund, "void")

\* lines 362-378: the tri-state respstat of a 200 refund answer b
cc_refund_interpret(l, b) ==
    IF Truthy(b.respstat) /\ b.respstat = CardConnectResponseStatusType.Approved
    THEN [exc |-> FALSE,
          l |-> [l EXCEPT !.success = TRUE,
                          !.message = Str("Successful refund transaction.")]]
    ELSE LET base ==
                IF Truthy(b.respstat) /\ b.respstat = CardConnectResponseStatusType.Retry
                THEN "Please retry the request."
                ELSE "Refund failed."
             l1 == [l EXCEPT !.http_status_code = GatewayResponses.BadRequest,
                             !.message = Str(base)]
         IN  IF b.resptext = Absent   \* refund_resp_json['resptext'] raises KeyError
             THEN [exc |-> TRUE, l |-> l1]
             ELSE [exc |-> FALSE,
                   l |-> [l1 EXCEPT !.message = Str(base \o " " \o b.resptext)]]

\* the inner try block of the refund path from the answer of requests.post on
cc_process_refund_response(l, r, refund) ==
    IF r.raised THEN cc_refund_except(l, r, refund, "refund")
    ELSE IF r.status_code = GatewayResponses.Approved
    THEN IF ~json_loads_ok(r.text) THEN cc_refund_except(l, r, refund, "refund")
         ELSE LET l1 == [l EXCEPT !.gateway_response_data = Append(@, Entry("json", "refund"))]
              IN  IF ~IsDict(r.text) THEN cc_refund_except(l1, r, refund, "refund")
                  ELSE LET i == cc_refund_interpret(l1, r.text)
                       IN  IF i.exc THEN cc_refund_except(i.l, r, refund, "refund")
                           ELSE IF Truthy(r.text.retref)
                           THEN [i.l EXCEPT !.transaction_id = r.text.retref]
                           ELSE i.l
    ELSE cc_refund_transport_failure(l, r, refund, "refund")

\* the outer try block from the answer of requests.get on, up to the decision;
\* next names the call to issue, or "return"
cc_process_inquire_response(l, r, refund) ==
    IF r.raised THEN [next |-> "return", l |-> cc_refund_except(l, r, refund, "inquire")]
    ELSE IF r.status_code = GatewayResponses.Approved
    THEN IF ~json_loads_ok(r.text)
         THEN [next |-> "return", l |-> cc_refund_except(l, r, refund, "inquire")]
         ELSE LET l1 == [l EXCEPT !.gateway_response_data = Append(@, Entry("json", "inquire"))]
                  decision == cc_refund_decision(r.text)
              IN  IF ~IsDict(r.text)
                  THEN [next |-> "return", l |-> cc_refund_except(l1, r, refund, "inquire")]
                  ELSE IF decision \in {"void", "refund"}
                  THEN [next |-> decision, l |-> l1]
                  ELSE [next |-> "return", l |-> cc_refund_conflict(l1, refund, decision)]
    ELSE [next |-> "return", l |-> cc_refund_transport_failure(l, r, refund, "inquire")]

(***************************************************************************)
(* gateways/payload.py.  The vendor SDK either returns an object or raises *)
(* a fault.  A fault has a type (the exception class), and a vendor fault  *)
(* has a response attribute: a dict that holds the card_number detail, a   *)
(* dict without it, or an attribute whose read raises ("missing").         *)
(***************************************************************************)
\* the classes named in the except (...) tuple of both methods
PayloadTupleTypes ==
    {"InvalidAttributes", "InternalServerError", "Unauthorized", "NotFound",
     "TooManyRequests", "ServiceUnavailable", "BadRequest", "Forbidden"}

\* payload.exceptions: TransactionDeclined and InvalidAttributes derive from
\* BadRequest; UnknownResponse is a vendor fault outside the tuple
PayloadTypeBases(t) ==
    IF t \in {"TransactionDeclined", "InvalidAttributes"} THEN {t, "BadRequest"} ELSE {t}

PayloadFaultTypes ==
    PayloadTupleTypes \cup {"ValueError", "TransactionDeclined", "UnknownResponse", "ConnectionError"}

PayloadFaultResponses == {"card_number", "generic", "missing"}

PayloadFaults ==
    {[raised |-> TRUE, type |-> t, response |-> d] :
        t \in PayloadTupleTypes, d \in PayloadFaultResponses}
    \cup {[raised |-> TRUE, type |-> t, response |-> "generic"] :
        t \in PayloadFaultTypes \ PayloadTupleTypes}

\* a returned object: the attributes the adapter reads
PayloadObject(status, funding_status) ==
    [raised |-> FALSE, type |-> "object", response |-> "generic",
     status |-> status, funding_status |-> funding_status,
     status_message |-> "Transaction " \o status, id |-> "PL_NEW", amount |-> SomeAmount(10)]

PaymentCreateAnswers == PayloadFaults \cup {PayloadObject("processed", "pending")}

PaymentGetAnswers ==
    PayloadFaults \cup
    {PayloadObject(s, f) : s \in {"processed", "voided"}, f \in {"pending", "batched", "rejected"}}

TransactionGetAnswers == PayloadFaults \cup {PayloadObject("processed", "pending")}

TransactionUpdateAnswers == PayloadFaults \cup {PayloadObject("voided", "pending")}

RefundCreateAnswers == PayloadFaults \cup {PayloadObject("processed", "pending")}

\* whether an except clause naming the classes in clause catches fault f
ExceptMatches(clause, f) == PayloadTypeBases(f.type) \cap clause # {}

\* comment[:128]
MaxDescriptionLength == 128

\* mutant: one character more than the maximum is kept
truncate_one_more(comment) ==
    SubSeq(comment, 1, IF Len(comment) < MaxDescriptionLength + 1
                       THEN Len(comment) ELSE MaxDescriptionLength + 1)

truncate(comment) ==
    SubSeq(comment, 1, IF Len(comment) < MaxDescriptionLength THEN Len(comment) ELSE MaxDescriptionLength)

\* mutant: every vendor fault of the tuple is answered as a bad request
pl_payment_vendor_fault_flat(l, f) ==
    [l EXCEPT
        !.http_status_code = GatewayResponses.BadRequest,
        !.message =
            CASE f.response = "card_number" -> Str("The card number is invalid, please check the number.")
              [] f.response = "generic" -> DictMessage("error.response")
              [] f.response = "missing" -> DictMessage("error.__dict__")]

\* except (InvalidAttributes, ..., Forbidden) as error: of process_payment
pl_payment_vendor_fault(l, f) ==
    IF f.type \in DOMAIN GatewayResponses
    THEN [l EXCEPT
            !.http_status_code = GatewayResponses[f.type],
            !.message =
                CASE f.response = "card_number" -> Str("The card number is invalid, please check the number.")
                  [] f.response = "generic" -> DictMessage("error.response")
                  [] f.response = "missing" -> DictMessage("error.__dict__")]
    ELSE [l EXCEPT
            !.message = Str("Unrecognized Payload error response"),
            !.http_status_code = 400]

\* mutant: the bare except answers 421, as the bare except of the endpoint does
pl_payment_except_421(l, f) ==
    IF ExceptMatches({"ValueError"}, f)
    THEN [l EXCEPT !.http_status_code = 400, !.message = Str("str(error)")]
    ELSE IF ExceptMatches({"TransactionDeclined"}, f)
    THEN [l EXCEPT
            !.processing_status = "declined",
            !.http_status_code = 400,
            !.message = Str("Transaction declined")]
    ELSE IF ExceptMatches(PayloadTupleTypes, f)
    THEN pl_payment_vendor_fault(l, f)
    ELSE [l EXCEPT !.message = Str("Unknown Payload response type"), !.http_status_code = 421]

\* the except clauses of process_payment, in their order
pl_payment_except(l, f) ==
    IF ExceptMatches({"ValueError"}, f)
    THEN [l EXCEPT !.http_status_code = 400, !.message = Str("str(error)")]
    ELSE IF ExceptMatches({"TransactionDeclined"}, f)
    THEN [l EXCEPT
            !.processing_status = "declined",
            !.http_status_code = 400,      \* error.http_code of the BadRequest family
            !.message = Str("Transaction declined")]
    ELSE IF ExceptMatches(PayloadTupleTypes, f)
    THEN pl_payment_vendor_fault(l, f)
    ELSE [l EXCEPT !.message = Str("Unknown Payload response type"), !.http_status_code = 422]

\* mutant: a fault of the tuple whose class name is no canonical status is
\* answered as the bare except answers
pl_refund_vendor_fault_unnamed_422(l, f) ==
    IF f.type \in DOMAIN GatewayResponses
    THEN [l EXCEPT
            !.http_status_code = GatewayResponses[f.type],
            !.message =
                IF f.response = "missing"
                THEN DictMessage("error.__dict__")
                ELSE DictMessage("error.response")]
    ELSE [l EXCEPT
            !.message = Str("Unrecognized Payload error response"),
            !.http_status_code = 422]

\* except (InvalidAttributes, ..., Forbidden) as error: of process_refund
pl_refund_vendor_fault(l, f) ==
    IF f.type \in DOMAIN GatewayResponses
    THEN [l EXCEPT
            !.http_status_code = GatewayResponses[f.type],
            !.message =
                IF f.response = "missing"
                THEN DictMessage("error.__dict__")
                ELSE DictMessage("error.response")]
    ELSE [l EXCEPT
            !.message = Str("Unrecognized Payload error response"),
            !.http_status_code = 400]

\* the except clauses of process_refund, in their order
pl_refund_except(l, f) ==
    IF ExceptMatches({"ValueError"}, f)
    THEN [l EXCEPT !.http_status_code = 400, !.message = Str("str(error)")]
    ELSE IF ExceptMatches(PayloadTupleTypes, f)
    THEN pl_refund_vendor_fault(l, f)
    ELSE [l EXCEPT !.message = Str("Unknown Payload response type"), !.http_status_code = 422]

\* a fault raised by the adapter's own code (None[:128], None[0:2], the
\* ValueError of an unknown funding status)
LocalFault(t) == [raised |-> TRUE, type |-> t, response |-> "generic"]

\* lines 60-63 and 147-154: the object returned by the last call
pl_success(l, obj) ==
    [l EXCEPT
        !.success = TRUE,
        !.processing_status = obj.status,
        !.message = Str(obj.status_message),
        !.transaction_id = obj.id]

\* lines 148-150: the payment was voided before
pl_already_voided(l, payment_object) ==
    [l EXCEPT
        !.success = TRUE,
        !.processing_status = payment_object.status,
        !.message = Str("Payment transaction has already been voided.  No further action has been taken.")]

\* mutant: the result reports the key the vendor client holds at the return
pl_result_with_client_key(l, request) ==
    [returned |-> ~l.raised,
     success |-> l.success,
     transactionId |-> l.transaction_id,
     statusCode |-> pl_api_key,
     gatewayHttpStatusCode |-> l.http_status_code,
     responseMessage |-> l.message,
     merchantAccountId |-> request.merchantAccountId,
     gatewayResponseData |-> [type |-> "NoneType", items |-> << >>]]

\* the dict built in the finally block of both methods
pl_result(l, request) ==
    [returned |-> ~l.raised,
     success |-> l.success,
     transactionId |-> l.transaction_id,
     statusCode |-> l.processing_status,
     gatewayHttpStatusCode |-> l.http_status_code,
     responseMessage |-> l.message,
     merchantAccountId |-> request.merchantAccountId,
     gatewayResponseData |-> [type |-> "NoneType", items |-> << >>]]

(***************************************************************************)
(* main.py: requests.  The fields the handlers and the adapters read.      *)
(***************************************************************************)
NumApiKeys == 2

ApiKeys == {"key" \o ToString(i) : i \in 1..NumApiKeys}

Credentials(keys, apiKey) ==
    [k \in keys |-> IF k = "apiKey" THEN apiKey ELSE k \o "_value"]

CredentialKeySets ==
    {{}, {"apiKey"}, {"apiKey", "processingId"}, {"username", "password"},
     {"username", "password", "merchantId"},
     {"apiKey", "processingId", "username", "password", "merchantId"}}

CredentialMaps ==
    {Credentials(ks, k) : ks \in {x \in CredentialKeySets : "apiKey" \in x}, k \in ApiKeys}
    \cup {Credentials(ks, None) : ks \in {x \in CredentialKeySets : "apiKey" \notin x}}

GatewayTypeIds == {1, 2, 3}

LongComment ==
    LET s16 == "0123456789abcdef"
        s64 == s16 \o s16 \o s16 \o s16
    IN  s64 \o s64 \o "!"

\* a comment of exactly MaxDescriptionLength characters
FullComment == SubSeq(LongComment, 1, MaxDescriptionLength)

Comments == {None, "order 42", FullComment, LongComment}

Payments ==
    [endpoint : {"processPayment"}, bvmeta_ok : BOOLEAN, gatewayTypeId : GatewayTypeIds,
     credentials : CredentialMaps, merchantAccountId : {7},
     amount : {SomeAmount(10), SomeAmount(0), SomeAmount(-10)},
     currencyType : {840, 999}, comment : Comments, expDate : {None, "1225"},
     paymentTransactionId : {None}]

Refunds ==
    [endpoint : {"processRefund"}, bvmeta_ok : BOOLEAN, gatewayTypeId : GatewayTypeIds,
     credentials : CredentialMaps, merchantAccountId : {7},
     amount : {NoneAmount, SomeAmount(5)},
     currencyType : {840}, comment : Comments, expDate : {None},
     paymentTransactionId : {"RETREF_PAID"}]

NoRequest ==
    [endpoint |-> None, bvmeta_ok |-> FALSE, gatewayTypeId |-> 0,
     credentials |-> Credentials({}, None), merchantAccountId |-> 0, amount |-> NoneAmount,
     currencyType |-> 0, comment |-> None, expDate |-> None, paymentTransactionId |-> None]

(***************************************************************************)
(* main.py: submit_sale and submit_credit                                  *)
(***************************************************************************)
\* payment_result / refund_result as the handler initialises it
InitialResult(request) ==
    [returned |-> FALSE, success |-> FALSE, transactionId |-> None, statusCode |-> None,
     gatewayHttpStatusCode |-> 0, responseMessage |-> NoneMessage,
     merchantAccountId |-> request.merchantAccountId,
     gatewayResponseData |-> [type |-> "NoneType", items |-> << >>]]

NoSelf == [api_key |-> None, processing_id |-> None, usr |-> None, pwd |-> None, merchantId |-> None]

NoObject == PayloadObject(None, None)

IdleFrame ==
    [pc |-> "idle", request |-> NoRequest, processor |-> None, self |-> NoSelf,
     l |-> AdapterLocals, payment_object |-> NoObject, calls |-> << >>, answers |-> << >>,
     result |-> InitialResult(NoRequest), response_status |-> 0, response_detail |-> None]

\* mutant: a range test in place of the membership test
gateway_type_supported_range(gatewayTypeId) == gatewayTypeId >= 1

\* gatewayTypeId in [item.value for item in GatewayType]
gateway_type_supported(gatewayTypeId) == gatewayTypeId \in GatewayTypeValues

\* mutant: any key of the gateway is enough
required_credentials_present_any(name, credentials) ==
    GatewayCredentials[name] \cap DOMAIN credentials # {}

\* set(credentials) >= set(GatewayCredentials.<name>.value)
required_credentials_present(name, credentials) ==
    GatewayCredentials[name] \subseteq DOMAIN credentials

\* PayloadProcessor.__init__ and CardConnectProcessor.__init__; a missing key
\* raises KeyError
init_raises(name, credentials) == ~(GatewayCredentials[name] \subseteq DOMAIN credentials)

PayloadProcessor(credentials) ==
    [NoSelf EXCEPT !.api_key = credentials.apiKey, !.processing_id = credentials.processingId]

CardConnectProcessor(credentials) ==
    [NoSelf EXCEPT !.usr = credentials.username, !.pwd = credentials.password,
                   !.merchantId = credentials.merchantId]

\* the answers given without an adapter: the header, the gateway type, the
\* credentials, and the bare except of the handler
respond_without_adapter(f, status, detail) ==
    [f EXCEPT !.pc = "responded", !.response_status = status, !.response_detail = detail]

\* what the handler does before it calls the adapter method: "adapter" when a
\* processor is constructed, otherwise the answer
dispatch(request, noun) ==
    IF ~request.bvmeta_ok
    THEN [to |-> "respond", status |-> 400, detail |-> "Incomplete request"]
    ELSE IF ~gateway_type_supported(request.gatewayTypeId)
    THEN [to |-> "respond", status |-> 400, detail |-> "Unknown payment gateway type"]
    ELSE IF request.gatewayTypeId \notin GatewayTypeValues     \* GatewayType(id) raises ValueError
    THEN [to |-> "respond", status |-> 421,
          detail |-> "Unexpected error encountered processing " \o noun \o " request"]
    ELSE LET name == GatewayTypeName(request.gatewayTypeId)
         IN  IF ~required_credentials_present(name, request.credentials)
             THEN [to |-> "respond", status |-> 400,
                   detail |-> "Required credentials for " \o name \o " are not present"]
             ELSE IF init_raises(name, request.credentials)
             THEN [to |-> "respond", status |-> 421,
                   detail |-> "Unexpected error encountered processing " \o name \o " " \o noun \o " request"]
             ELSE [to |-> "adapter", status |-> 0, detail |-> name]

\* mutant: only the statuses above 500 are collapsed to 400
respond_after_adapter_above_500(f, result) ==
    LET name == f.processor
        sale == f.request.endpoint = "processPayment"
        response_status ==
            IF result.gatewayHttpStatusCode > 500 THEN 400 ELSE result.gatewayHttpStatusCode
    IN  IF ~result.returned
        THEN respond_without_adapter(f, 421,
                "Unexpected error encountered processing " \o name \o
                (IF sale THEN " payment request" ELSE " refund request"))
        ELSE [f EXCEPT
                !.pc = "responded",
                !.result = result,
                !.response_status = response_status,
                !.response_detail =
                    IF response_status # 200
                    THEN IF sale
                         THEN "Error encountered during payment attempt to " \o name \o
                              " payment processing endpoint"
                         ELSE IF name = "Payload" /\ response_status = 404
                         THEN "The provided payment transaction id does not exist"
                         ELSE "Error encountered during refund request to " \o name \o
                              " refund processing endpoint"
                    ELSE IF sale THEN "Transaction approved" ELSE "Refund successfully processed"]

\* lines 191-204 and 303-321: the adapter method returned result, or raised
respond_after_adapter(f, result) ==
    LET name == f.processor
        sale == f.request.endpoint = "processPayment"
        response_status ==
            IF result.gatewayHttpStatusCode >= 500 THEN 400 ELSE result.gatewayHttpStatusCode
    IN  IF ~result.returned
        THEN respond_without_adapter(f, 421,
                "Unexpected error encountered processing " \o name \o
                (IF sale THEN " payment request" ELSE " refund request"))
        ELSE [f EXCEPT
                !.pc = "responded",
                !.result = result,
                !.response_status = response_status,
                !.response_detail =
                    IF response_status # 200
                    THEN IF sale
                         THEN "Error encountered during payment attempt to " \o name \o
                              " payment processing endpoint"
                         ELSE IF name = "Payload" /\ response_status = 404
                         THEN "The provided payment transaction id does not exist"
                         ELSE "Error encountered during refund request to " \o name \o
                              " refund processing endpoint"
                    ELSE IF sale THEN "Transaction approved" ELSE "Refund successfully processed"]

(***************************************************************************)
(* The handlers as steps.  issue records an upstream call and blocks on    *)
(* it; adapter_return is the adapter method's finally block and return,    *)
(* followed by the rest of the endpoint handler.                           *)
(***************************************************************************)
issue(f, pc, data) == [f EXCEPT !.pc = pc, !.calls = Append(@, data)]

\* the upstream's answer to the pending call, kept as the invocation's history
received(f, op, r) == [f EXCEPT !.answers = Append(@, [op |-> op, answer |-> r])]

\* mutant: a CardConnect void that did not succeed is followed by a refund request
adapter_return_refund_after_void(f, l) ==
    LET result ==
            IF f.processor = "CardConnect"
            THEN cc_result(l, f.request)
            ELSE pl_result(l, f.request)
    IN  IF f.processor = "CardConnect" /\ Len(f.calls) = 2
              /\ f.calls[2].op = "void" /\ ~l.success
        THEN issue([f EXCEPT !.l = l], "cc_refund", cc_refund_data(f.self, f.request))
        ELSE respond_after_adapter([f EXCEPT !.l = l], result)

adapter_return(f, l) ==
    LET result ==
            IF f.processor = "CardConnect"
            THEN cc_result(l, f.request)
            ELSE pl_result(l, f.request)
    IN  respond_after_adapter([f EXCEPT !.l = l], result)

\* a call of the vendor SDK: it authenticates with payload.api_key as it is
\* when the call is made
pl_call(op, api_key, self, retref, amount, description) ==
    [op |-> op, auth |-> api_key, merchid |-> self.processing_id, retref |-> retref,
     amount |-> amount, description |-> description]

\* mutant: the auth request is posted a second time
cc_process_payment_entry_resend(f) ==
    IF ~CurrencyCodeKnown(f.request)
    THEN adapter_return(f, cc_payment_except(f.l, NoResponse))
    ELSE issue(issue(f, "cc_auth", cc_auth_data(f.self, f.request)),
               "cc_auth", cc_auth_data(f.self, f.request))

\* CardConnectProcessor.process_payment up to requests.post
cc_process_payment_entry(f) ==
    IF ~CurrencyCodeKnown(f.request)
    THEN adapter_return(f, cc_payment_except(f.l, NoResponse))
    ELSE issue(f, "cc_auth", cc_auth_data(f.self, f.request))

\* CardConnectProcessor.process_refund up to requests.get
cc_process_refund_entry(f) ==
    issue(f, "cc_inquire", cc_inquire_data(f.self, f.request))

\* PayloadProcessor.process_payment up to pl.Payment.create; the arguments
\* are evaluated first, and None[0:2] or None[:128] raises TypeError
pl_process_payment_entry(f) ==
    IF f.request.expDate = None \/ f.request.comment = None
    THEN adapter_return(f, pl_payment_except(f.l, LocalFault("TypeError")))
    ELSE issue(f, "pl_payment_create",
               pl_call("Payment.create", f.self.api_key, f.self, None,
                       f.request.amount, truncate(f.request.comment)))

\* PayloadProcessor.process_refund up to pl.Payment.get
pl_process_refund_entry(f) ==
    issue(f, "pl_payment_get",
          pl_call("Payment.get", f.self.api_key, f.self,
                  f.request.paymentTransactionId, NoneAmount, None))

\* the endpoint handler from its entry to its first upstream call or its answer
handler_entry(request, noun) ==
    LET f0 == [IdleFrame EXCEPT !.pc = "running", !.request = request,
                                !.result = InitialResult(request)]
        d == dispatch(request, noun)
        sale == request.endpoint = "processPayment"
    IN  IF d.to = "respond"
        THEN respond_without_adapter(f0, d.status, d.detail)
        ELSE IF d.detail = "Payload"
        THEN LET f1 == [f0 EXCEPT !.processor = "Payload",
                                  !.self = PayloadProcessor(request.credentials)]
             IN  IF sale THEN pl_process_payment_entry(f1) ELSE pl_process_refund_entry(f1)
        ELSE LET f1 == [f0 EXCEPT !.processor = "CardConnect",
                                  !.self = CardConnectProcessor(request.credentials)]
             IN  IF sale THEN cc_process_payment_entry(f1) ELSE cc_process_refund_entry(f1)

\* pl.api_key = self.api_key, the first statement of both Payload methods
api_key_after_entry(f, key) == IF f.processor = "Payload" THEN f.self.api_key ELSE key

\* POST /paymentGateway/processPayment
submit_sale(w) ==
    /\ frame[w].pc = "idle"
    /\ \E payment \in Payments :
          LET f == handler_entry(payment, "payment")
          IN  /\ frame' = [frame EXCEPT ![w] = f]
              /\ pl_api_key' = api_key_after_entry(f, pl_api_key)

\* PATCH /paymentGateway/processRefund
submit_credit(w) ==
    /\ frame[w].pc = "idle"
    /\ \E refund \in Refunds :
          LET f == handler_entry(refund, "refund")
          IN  /\ frame' = [frame EXCEPT ![w] = f]
              /\ pl_api_key' = api_key_after_entry(f, pl_api_key)

\* requests.post(auth_url, ...) answers
cc_auth_answer(w) ==
    /\ frame[w].pc = "cc_auth"
    /\ \E r \in HttpResponses(AuthTexts) :
          frame' = [frame EXCEPT ![w] =
                        adapter_return(received(@, "auth", r),
                                       cc_process_payment_response(@.l, r))]
    /\ UNCHANGED pl_api_key

\* requests.get(inquire_url, ...) answers
cc_inquire_answer(w) ==
    /\ frame[w].pc = "cc_inquire"
    /\ \E r \in HttpResponses(InquireTexts) :
          LET f == received(frame[w], "inquire", r)
              i == cc_process_inquire_response(f.l, r, f.request)
              f1 == [f EXCEPT !.l = i.l]
          IN  frame' = [frame EXCEPT ![w] =
                CASE i.next = "void" -> issue(f1, "cc_void", cc_void_data(f.self, f.request))
                  [] i.next = "refund" -> issue(f1, "cc_refund", cc_refund_data(f.self, f.request))
                  [] OTHER -> adapter_return(f, i.l)]
    /\ UNCHANGED pl_api_key

\* requests.post(void_url, ...) answers
cc_void_answer(w) ==
    /\ frame[w].pc = "cc_void"
    /\ \E r \in HttpResponses(VoidTexts) :
          frame' = [frame EXCEPT ![w] =
                        adapter_return(received(@, "void", r),
                                       cc_process_void_response(@.l, r, @.request))]
    /\ UNCHANGED pl_api_key

\* requests.post(refund_url, ...) answers
cc_refund_answer(w) ==
    /\ frame[w].pc = "cc_refund"
    /\ \E r \in HttpResponses(RefundTexts) :
          frame' = [frame EXCEPT ![w] =
                        adapter_return(received(@, "refund", r),
                                       cc_process_refund_response(@.l, r, @.request))]
    /\ UNCHANGED pl_api_key

\* pl.Payment.create(...) answers
pl_payment_create_answer(w) ==
    /\ frame[w].pc = "pl_payment_create"
    /\ \E a \in PaymentCreateAnswers :
          frame' = [frame EXCEPT ![w] =
                        adapter_return(received(@, "Payment.create", a),
                                       IF a.raised THEN pl_payment_except(@.l, a)
                                       ELSE pl_success(@.l, a))]
    /\ UNCHANGED pl_api_key

\* mutant: the funding status is looked at before the voided status
pl_refund_decision_funding_first(payment_object, refund) ==
    IF payment_object.funding_status = "pending" THEN "void"
    ELSE IF payment_object.funding_status = "batched"
    THEN IF refund.comment = None THEN "TypeError" ELSE "refund"
    ELSE IF payment_object.status = "voided" THEN "already_voided"
    ELSE "ValueError"

\* lines 130-146: what follows the looked-up payment: "return" with the fault
\* raised or the locals of the already-voided case, or the next call
pl_refund_decision(payment_object, refund) ==
    IF payment_object.status = "voided" THEN "already_voided"
    ELSE IF payment_object.funding_status = "pending" THEN "void"
    ELSE IF payment_object.funding_status = "batched"
    THEN IF refund.comment = None THEN "TypeError" ELSE "refund"
    ELSE "ValueError"

\* pl.Payment.get(refund.paymentTransactionId) answers
pl_payment_get_answer(w) ==
    /\ frame[w].pc = "pl_payment_get"
    /\ \E a \in PaymentGetAnswers :
          LET f == received(frame[w], "Payment.get", a)
              decision == pl_refund_decision(a, f.request)
              f1 == [f EXCEPT !.payment_object = a]
          IN  frame' = [frame EXCEPT ![w] =
                IF a.raised THEN adapter_return(f, pl_refund_except(f.l, a))
                ELSE CASE decision = "already_voided" ->
                            adapter_return(f1, pl_already_voided(f.l, a))
                       [] decision = "void" ->
                            issue(f1, "pl_transaction_get",
                                  pl_call("Transaction.get", pl_api_key, f.self,
                                          f.request.paymentTransactionId, NoneAmount, None))
                       [] decision = "refund" ->
                            issue(f1, "pl_refund_create",
                                  pl_call("Refund.create", pl_api_key, f.self,
                                          f.request.paymentTransactionId, a.amount,
                                          truncate(f.request.comment)))
                       [] OTHER ->
                            adapter_return(f1, pl_refund_except(f.l, LocalFault(decision)))]
    /\ UNCHANGED pl_api_key

\* pl.Transaction.get(refund.paymentTransactionId) answers; the arguments of
\* update are evaluated before it is called
pl_transaction_get_answer(w) ==
    /\ frame[w].pc = "pl_transaction_get"
    /\ \E a \in TransactionGetAnswers :
          LET f == received(frame[w], "Transaction.get", a)
          IN  frame' = [frame EXCEPT ![w] =
                IF a.raised THEN adapter_return(f, pl_refund_except(f.l, a))
                ELSE IF f.request.comment = None
                THEN adapter_return(f, pl_refund_except(f.l, LocalFault("TypeError")))
                ELSE issue(f, "pl_transaction_update",
                           pl_call("Transaction.update", pl_api_key, f.self,
                                   f.request.paymentTransactionId, NoneAmount,
                                   truncate(f.request.comment)))]
    /\ UNCHANGED pl_api_key

\* refund_object.update(status="voided", ...) answers
pl_transaction_update_answer(w) ==
    /\ frame[w].pc = "pl_transaction_update"
    /\ \E a \in TransactionUpdateAnswers :
          frame' = [frame EXCEPT ![w] =
                        adapter_return(received(@, "Transaction.update", a),
                                       IF a.raised THEN pl_refund_except(@.l, a)
                                       ELSE pl_success(@.l, a))]
    /\ UNCHANGED pl_api_key

\* pl.Refund.create(...) answers
pl_refund_create_answer(w) ==
    /\ frame[w].pc = "pl_refund_create"
    /\ \E a \in RefundCreateAnswers :
          frame' = [frame EXCEPT ![w] =
                        adapter_return(received(@, "Refund.create", a),
                                       IF a.raised THEN pl_refund_except(@.l, a)
                                       ELSE pl_success(@.l, a))]
    /\ UNCHANGED pl_api_key

\* the response is sent and the handler's locals are discarded: nothing of the
\* request is kept, and the worker takes the next request
handler_exit(w) ==
    /\ frame[w].pc = "responded"
    /\ frame' = [frame EXCEPT ![w] = IdleFrame]
    /\ UNCHANGED pl_api_key

(***************************************************************************)
(* The service with one request in progress at a time                      *)
(***************************************************************************)
Workers == {1}

Init ==
    /\ frame = [w \in Workers |-> IdleFrame]
    /\ pl_api_key = None

Next ==
    \E w \in Workers :
        \/ submit_sale(w)
        \/ submit_credit(w)
        \/ cc_auth_answer(w)
        \/ cc_inquire_answer(w)
        \/ cc_void_answer(w)
        \/ cc_refund_answer(w)
        \/ pl_payment_create_answer(w)
        \/ pl_payment_get_answer(w)
        \/ pl_transaction_get_answer(w)
        \/ pl_transaction_update_answer(w)
        \/ pl_refund_create_answer(w)
        \/ handler_exit(w)

Spec == Init /\ [][Next]_vars

(***************************************************************************)
(* The service with two requests in progress at a time: the framework may  *)
(* run the handlers of two requests with their upstream calls interleaved. *)
(* A handler runs from its entry to its first upstream call, and from one  *)
(* answer to the next call, without interruption.  The requests are valid  *)
(* ones: payments of both gateways and Payload refunds.                    *)
(***************************************************************************)
ConcurrentWorkers == {1, 2}

ConcurrentPayments ==
    {p \in Payments :
        /\ p.bvmeta_ok
        /\ \/ p.gatewayTypeId = GatewayType.Payload
                 /\ DOMAIN p.credentials = GatewayCredentials.Payload
           \/ p.gatewayTypeId = GatewayType.CardConnect
                 /\ DOMAIN p.credentials = GatewayCredentials.CardConnect
        /\ p.amount = SomeAmount(10)
        /\ CurrencyCodeKnown(p)
        /\ p.comment = "order 42"
        /\ p.expDate # None}

ConcurrentRefunds ==
    {r \in Refunds :
        /\ r.bvmeta_ok
        /\ r.gatewayTypeId = GatewayType.Payload
        /\ DOMAIN r.credentials = GatewayCredentials.Payload
        /\ r.amount = NoneAmount
        /\ r.comment = "order 42"}

\* POST /paymentGateway/processPayment while another request may be in progress
concurrent_submit_sale(w) ==
    /\ frame[w].pc = "idle"
    /\ \E payment \in ConcurrentPayments :
          LET f == handler_entry(payment, "payment")
          IN  /\ frame' = [frame EXCEPT ![w] = f]
              /\ pl_api_key' = api_key_after_entry(f, pl_api_key)

\* PATCH /paymentGateway/processRefund while another request may be in progress
concurrent_submit_credit(w) ==
    /\ frame[w].pc = "idle"
    /\ \E refund \in ConcurrentRefunds :
          LET f == handler_entry(refund, "refund")
          IN  /\ frame' = [frame EXCEPT ![w] = f]
              /\ pl_api_key' = api_key_after_entry(f, pl_api_key)

ConcurrentInit ==
    /\ frame = [w \in ConcurrentWorkers |-> IdleFrame]
    /\ pl_api_key = None

ConcurrentNext ==
    \E w \in ConcurrentWorkers :
        \/ concurrent_submit_sale(w)
        \/ concurrent_submit_credit(w)
        \/ cc_auth_answer(w)
        \/ pl_payment_create_answer(w)
        \/ pl_payment_get_answer(w)
        \/ pl_transaction_get_answer(w)
        \/ pl_transaction_update_answer(w)
        \/ pl_refund_create_answer(w)
        \/ handler_exit(w)

ConcurrentSpec == ConcurrentInit /\ [][ConcurrentNext]_vars

(***************************************************************************)
(* Two refund requests for one payment in progress at a time: the same     *)
(* refund submitted twice, to either gateway.                              *)
(***************************************************************************)
DuplicateRefunds ==
    {r \in Refunds :
        /\ r.bvmeta_ok
        /\ \/ /\ r.gatewayTypeId = GatewayType.Payload
              /\ DOMAIN r.credentials = GatewayCredentials.Payload
              /\ r.credentials.apiKey = "key1"
           \/ /\ r.gatewayTypeId = GatewayType.CardConnect
              /\ DOMAIN r.credentials = GatewayCredentials.CardConnect
        /\ r.amount = SomeAmount(5)
        /\ r.comment = "order 42"}

\* PATCH /paymentGateway/processRefund for a payment whose refund may be in progress
duplicate_submit_credit(w) ==
    /\ frame[w].pc = "idle"
    /\ \E refund \in DuplicateRefunds :
          LET f == handler_entry(refund, "refund")
          IN  /\ frame' = [frame EXCEPT ![w] = f]
              /\ pl_api_key' = api_key_after_entry(f, pl_api_key)

DuplicateNext ==
    \E w \in ConcurrentWorkers :
        \/ duplicate_submit_credit(w)
        \/ cc_inquire_answer(w)
        \/ cc_void_answer(w)
        \/ cc_refund_answer(w)
        \/ pl_payment_get_answer(w)
        \/ pl_transaction_get_answer(w)
        \/ pl_transaction_update_answer(w)
        \/ pl_refund_create_answer(w)
        \/ handler_exit(w)

DuplicateSpec == ConcurrentInit /\ [][DuplicateNext]_vars

(***************************************************************************)
(* Properties                                                              *)
(***************************************************************************)
\* the n-th upstream answer of invocation f was to call op
Answered(f, n, op) == Len(f.answers) >= n /\ f.answers[n].op = op

\* an HTTP 200 answer whose text parsed into a JSON object
Ok200Object(a) == ~a.raised /\ a.status_code = 200 /\ a.text.json = "object"

\* the upstream operations called after the first n calls of invocation f
OpsAfter(f, n) == {f.calls[i].op : i \in (n + 1)..Len(f.calls)}

AdapterInvoked(f) == f.processor # None

Responded(f) == f.pc = "responded"

\* C1: whatever the upstream does, an invoked adapter method returns a result
\* record with its fields set (success, status, merchant account id echoed)
\* and no exception leaves the method (the handler never answers 421).
C1_AdapterAlwaysReturnsResult ==
    \A w \in Workers :
        LET f == frame[w]
        IN  /\ ~f.l.raised
            /\ (Responded(f) /\ AdapterInvoked(f)) =>
                  /\ f.result.returned
                  /\ f.result.success \in BOOLEAN
                  /\ f.result.gatewayHttpStatusCode > 0
                  /\ f.result.merchantAccountId = f.request.merchantAccountId
                  /\ f.result.responseMessage.type \in {"NoneType", "str", "dict"}
                  /\ f.response_status # 421

\* a CardConnect refund whose void call answered 200 with JSON that is no
\* object, and a result was returned all the same
C1_Witness ==
    \E w \in Workers :
        LET f == frame[w]
        IN  /\ Responded(f)
            /\ Answered(f, 2, "void")
            /\ ~f.answers[2].answer.raised
            /\ f.answers[2].answer.status_code = 200
            /\ f.answers[2].answer.text.json = "array"
            /\ f.result.returned

\* the credential keys each gateway needs, as the contract states them
RequiredKeys(gatewayTypeId) ==
    IF gatewayTypeId = 1 THEN {"apiKey", "processingId"}
    ELSE {"username", "password", "merchantId"}

CredentialsSufficient(request) ==
    /\ request.gatewayTypeId \in {1, 2}
    /\ RequiredKeys(request.gatewayTypeId) \subseteq DOMAIN request.credentials

\* C2: an adapter is constructed, and an upstream call made, only for a
\* request whose credentials hold every key its gateway requires; a request of
\* a known gateway without them is answered 400 with no adapter and no call.
C2_AdapterOnlyWithRequiredCredentials ==
    \A w \in Workers :
        LET f == frame[w]
        IN  /\ (AdapterInvoked(f) \/ f.calls # << >> \/ f.result.returned) =>
                  CredentialsSufficient(f.request)
            /\ (Responded(f) /\ f.request.gatewayTypeId \in {1, 2}
                    /\ ~CredentialsSufficient(f.request)) =>
                  /\ f.response_status = 400
                  /\ ~AdapterInvoked(f)
                  /\ f.calls = << >>

\* a CardConnect refund with a valid header and no merchantId, answered 400
C2_Witness ==
    \E w \in Workers :
        LET f == frame[w]
        IN  /\ Responded(f)
            /\ f.request.bvmeta_ok
            /\ f.request.endpoint = "processRefund"
            /\ f.request.gatewayTypeId = 2
            /\ DOMAIN f.request.credentials = {"username", "password"}
            /\ f.response_status = 400
            /\ f.response_detail = "Required credentials for CardConnect are not present"

\* C3: a request whose gateway type id is neither 1 nor 2 is answered 400 and
\* no adapter is constructed or called; the dispatcher (reached once the
\* BVMeta header is accepted) answers it 'Unknown payment gateway type'.
C3_UnknownGatewayTypeRejected ==
    \A w \in Workers :
        LET f == frame[w]
        IN  (f.pc # "idle" /\ f.request.gatewayTypeId \notin {1, 2}) =>
                /\ Responded(f)
                /\ f.response_status = 400
                /\ ~AdapterInvoked(f)
                /\ f.calls = << >>
                /\ f.request.bvmeta_ok => f.response_detail = "Unknown payment gateway type"

\* a payment with a valid header, full credentials and gateway type id 3
C3_Witness ==
    \E w \in Workers :
        LET f == frame[w]
        IN  /\ Responded(f)
            /\ f.request.bvmeta_ok
            /\ f.request.endpoint = "processPayment"
            /\ f.request.gatewayTypeId = 3
            /\ {"apiKey", "processingId"} \subseteq DOMAIN f.request.credentials
            /\ f.response_detail = "Unknown payment gateway type"

\* the inquiry of a CardConnect refund answered 200 with an Approved status
ApprovedInquiry(f) ==
    /\ Answered(f, 1, "inquire")
    /\ Ok200Object(f.answers[1].answer)
    /\ f.answers[1].answer.text.respstat = "A"

\* C4: after an Approved inquiry, voidable=Y and refundable=N leads to the void
\* call and no refund call, voidable=N and refundable=Y to the refund call and
\* no void call, and N/N to neither call and a 409 failure.
C4_RefundDecision ==
    \A w \in Workers :
        LET f == frame[w]
            b == f.answers[1].answer.text
        IN  ApprovedInquiry(f) =>
                /\ (b.voidable = "Y" /\ b.refundable = "N") =>
                      /\ Len(f.calls) = 2 /\ f.calls[2].op = "void"
                /\ (b.voidable = "N" /\ b.refundable = "Y") =>
                      /\ Len(f.calls) = 2 /\ f.calls[2].op = "refund"
                /\ (b.voidable = "N" /\ b.refundable = "N") =>
                      /\ Len(f.calls) = 1
                      /\ Responded(f)
                      /\ f.result.returned
                      /\ f.result.gatewayHttpStatusCode = 409
                      /\ f.result.success = FALSE

\* all three cases have happened in finished invocations: here the N/N one
C4_Witness ==
    \E w \in Workers :
        LET f == frame[w]
        IN  /\ Responded(f)
            /\ ApprovedInquiry(f)
            /\ f.answers[1].answer.text.voidable = "N"
            /\ f.answers[1].answer.text.refundable = "N"
            /\ f.result.gatewayHttpStatusCode = 409

\* C5: an Approved inquiry that reports voidable=Y and refundable=Y leads to
\* the void call only: the calls of the invocation are inquire, void.
C5_VoidableCheckedFirst ==
    \A w \in Workers :
        LET f == frame[w]
            b == f.answers[1].answer.text
        IN  (ApprovedInquiry(f) /\ b.voidable = "Y" /\ b.refundable = "Y") =>
                /\ Len(f.calls) = 2
                /\ f.calls[2].op = "void"
                /\ "refund" \notin OpsAfter(f, 0)

\* such an invocation, finished
C5_Witness ==
    \E w \in Workers :
        LET f == frame[w]
        IN  /\ Responded(f)
            /\ ApprovedInquiry(f)
            /\ f.answers[1].answer.text.voidable = "Y"
            /\ f.answers[1].answer.text.refundable = "Y"
            /\ Answered(f, 2, "void")

\* C6: an inquiry answered 200 whose respstat is Retry, Declined or absent
\* ends the refund without a void or refund call, with success=false, status
\* 409 and the original payment transaction id, whatever voidable and
\* refundable say.
C6_UnapprovedInquiryConflict ==
    \A w \in Workers :
        LET f == frame[w]
        IN  (Answered(f, 1, "inquire") /\ Ok200Object(f.answers[1].answer)
                /\ f.answers[1].answer.text.respstat \in {"B", "C", Absent}) =>
                /\ Responded(f)
                /\ OpsAfter(f, 0) = {"inquire"}
                /\ f.result.returned
                /\ f.result.success = FALSE
                /\ f.result.gatewayHttpStatusCode = 409
                /\ f.result.transactionId = f.request.paymentTransactionId

\* a Declined inquiry that reports the payment voidable and refundable
C6_Witness ==
    \E w \in Workers :
        LET f == frame[w]
        IN  /\ Responded(f)
            /\ Answered(f, 1, "inquire")
            /\ Ok200Object(f.answers[1].answer)
            /\ f.answers[1].answer.text.respstat = "C"
            /\ f.answers[1].answer.text.voidable = "Y"
            /\ f.answers[1].answer.text.refundable = "Y"
            /\ f.result.gatewayHttpStatusCode = 409

\* the auth call of a CardConnect payment answered 200 with respstat a
AuthAnswered200(f, a) ==
    /\ Answered(f, 1, "auth")
    /\ Ok200Object(f.answers[1].answer)
    /\ f.answers[1].answer.text.respstat = a

\* C7 as stated: an Approved auth answer gives success=true, status 200,
\* message 'Success.' and a non-null payment transaction id.
C7_ApprovedPaymentHasTransactionId ==
    \A w \in Workers :
        LET f == frame[w]
        IN  AuthAnswered200(f, "A") =>
                /\ Responded(f)
                /\ f.result.success = TRUE
                /\ f.result.gatewayHttpStatusCode = 200
                /\ f.result.responseMessage = Str("Success.")
                /\ f.result.transactionId # None

\* C7 amended: an Approved auth answer gives success=true, status 200 and
\* message 'Success.'; the payment transaction id is the answer's retref, and
\* null when the answer carries none.
C7_ApprovedPayment ==
    \A w \in Workers :
        LET f == frame[w]
            b == f.answers[1].answer.text
        IN  AuthAnswered200(f, "A") =>
                /\ Responded(f)
                /\ f.result.returned
                /\ f.result.success = TRUE
                /\ f.result.gatewayHttpStatusCode = 200
                /\ f.result.responseMessage = Str("Success.")
                /\ f.result.transactionId = (IF b.retref = Absent THEN None ELSE b.retref)

\* an approved payment whose answer carries a retref
C7_Witness ==
    \E w \in Workers :
        LET f == frame[w]
        IN  /\ Responded(f)
            /\ AuthAnswered200(f, "A")
            /\ f.answers[1].answer.text.retref = "RETREF_NEW"
            /\ f.result.transactionId = "RETREF_NEW"
            /\ f.result.success

\* C8: an auth answer 200 with respstat Retry gives success=false, status 400
\* and a message that starts 'Please retry the request.'; with Declined,
\* 'Authorization failed.'; the vendor's response text, when the answer
\* carries one, follows in the message.
C8_RetryAndDeclinedPayment ==
    \A w \in Workers :
        LET f == frame[w]
            b == f.answers[1].answer.text
            base == IF b.respstat = "B" THEN "Please retry the request."
                    ELSE "Authorization failed."
            m == f.result.responseMessage
        IN  (AuthAnswered200(f, "B") \/ AuthAnswered200(f, "C")) =>
                /\ Responded(f)
                /\ f.result.returned
                /\ f.result.success = FALSE
                /\ f.result.gatewayHttpStatusCode = 400
                /\ m.type = "str"
                /\ StartsWith(m.text, base)
                /\ b.resptext # Absent => m.text = base \o " " \o b.resptext \o "."
                /\ b.resptext = Absent => m.text = base

\* a declined payment with the vendor text 'Do not honor'
C8_Witness ==
    \E w \in Workers :
        LET f == frame[w]
        IN  /\ Responded(f)
            /\ AuthAnswered200(f, "C")
            /\ f.answers[1].answer.text.resptext = "Do not honor"
            /\ f.result.responseMessage = Str("Authorization failed. Do not honor.")

\* the text of an answer does not parse into a JSON object
Malformed(a) == a.text.json \in {"empty", "invalid", "array"}

ExceptionRecorded(f, op) ==
    \E i \in 1..Len(f.result.gatewayResponseData.items) :
        f.result.gatewayResponseData.items[i] = Entry("exception", op)

\* C9 as stated: 401 gives 401, any other non-2xx status is passed through,
\* and a connection failure or a malformed 2xx body gives 500 with the
\* exception text in the audit trail; success=false in all of them.
C9_TransportOutcomes2xx ==
    \A w \in Workers :
        LET f == frame[w]
            a == f.answers[1].answer
        IN  Answered(f, 1, "auth") =>
                /\ (~a.raised /\ a.status_code = 401) =>
                      (f.result.success = FALSE /\ f.result.gatewayHttpStatusCode = 401)
                /\ (~a.raised /\ a.status_code \notin 200..299 /\ a.status_code # 401) =>
                      (f.result.success = FALSE /\ f.result.gatewayHttpStatusCode = a.status_code)
                /\ (a.raised \/ (a.status_code \in 200..299 /\ Malformed(a))) =>
                      /\ f.result.success = FALSE
                      /\ f.result.gatewayHttpStatusCode = 500
                      /\ ExceptionRecorded(f, "auth")

\* C9 amended: 401 gives 401; every other status than 200, the 2xx ones such
\* as 204 included, is passed through; a connection failure or a malformed
\* body of a 200 answer gives 500 with the exception text in the audit trail;
\* success=false in all of them.
C9_TransportOutcomes ==
    \A w \in Workers :
        LET f == frame[w]
            a == f.answers[1].answer
        IN  Answered(f, 1, "auth") =>
                /\ Responded(f) /\ f.result.returned
                /\ (~a.raised /\ a.status_code = 401) =>
                      (f.result.success = FALSE /\ f.result.gatewayHttpStatusCode = 401)
                /\ (~a.raised /\ a.status_code \notin {200, 401}) =>
                      (f.result.success = FALSE /\ f.result.gatewayHttpStatusCode = a.status_code)
                /\ (a.raised \/ (a.status_code = 200 /\ Malformed(a))) =>
                      /\ f.result.success = FALSE
                      /\ f.result.gatewayHttpStatusCode = 500
                      /\ ExceptionRecorded(f, "auth")

\* a 503 passed through, which the handler then answers as 400
C9_Witness ==
    \E w \in Workers :
        LET f == frame[w]
        IN  /\ Responded(f)
            /\ Answered(f, 1, "auth")
            /\ ~f.answers[1].answer.raised
            /\ f.answers[1].answer.status_code = 503
            /\ f.result.gatewayHttpStatusCode = 503
            /\ f.response_status = 400

\* C10: a void answer 200 with respstat Approved and authcode REVERS gives
\* success=true with status 200, whatever else the answer carries.
C10_SuccessfulVoid ==
    \A w \in Workers :
        LET f == frame[w]
            a == f.answers[2].answer
        IN  (Answered(f, 2, "void") /\ Ok200Object(a)
                /\ a.text.respstat = "A" /\ a.text.authcode = "REVERS") =>
                /\ f.result.success = TRUE
                /\ f.result.gatewayHttpStatusCode = 200

\* the second upstream answer of invocation f is an HTTP 200 JSON object to op
SecondAnswered200(f, op) == Answered(f, 2, op) /\ Ok200Object(f.answers[2].answer)

\* C11: a void answer 200 with respstat Approved and authcode NULL gives
\* success=false with status 400 and a message that ends with the vendor's
\* response text.
C11_UnsuccessfulVoid ==
    \A w \in Workers :
        LET f == frame[w]
            b == f.answers[2].answer.text
            m == f.result.responseMessage
        IN  (SecondAnswered200(f, "void") /\ b.respstat = "A" /\ b.authcode = "NULL") =>
                /\ f.result.success = FALSE
                /\ f.result.gatewayHttpStatusCode = 400
                /\ b.resptext # Absent =>
                      m = Str("Void transaction was unsuccessful." \o " " \o b.resptext)

\* C12: a void answer 200 with respstat Approved and no authcode is taken as
\* a successful void: success=true with status 200.
C12_AssumedSuccessfulVoid ==
    \A w \in Workers :
        LET f == frame[w]
            b == f.answers[2].answer.text
        IN  (SecondAnswered200(f, "void") /\ b.respstat = "A" /\ b.authcode = Absent) =>
                /\ f.result.success = TRUE
                /\ f.result.gatewayHttpStatusCode = 200

\* C13: a void answer 200 with respstat Retry or Declined gives success=false
\* with status 409 and a message that ends with the vendor's response text,
\* for Retry and for Declined alike.
C13_DeclinedVoid ==
    \A w \in Workers :
        LET f == frame[w]
            b == f.answers[2].answer.text
            m == f.result.responseMessage
        IN  (SecondAnswered200(f, "void") /\ b.respstat \in {"B", "C"}) =>
                /\ f.result.success = FALSE
                /\ f.result.gatewayHttpStatusCode = 409
                /\ m.type = "str"
                /\ b.resptext # Absent =>
                      \E base \in {"Unable to complete void transaction.",
                                   "Void transaction was declined."} :
                          m.text = base \o " " \o b.resptext

\* C14: a refund answer 200 is read as the auth answer of a payment is:
\* Approved gives success=true with status 200; Retry and Declined give
\* success=false with status 400 and the retry or the failure message, also
\* when the answer carries no vendor response text.
C14_RefundTriState ==
    \A w \in Workers :
        LET f == frame[w]
            b == f.answers[2].answer.text
            m == f.result.responseMessage
        IN  SecondAnswered200(f, "refund") =>
                /\ b.respstat = "A" =>
                      (f.result.success = TRUE /\ f.result.gatewayHttpStatusCode = 200)
                /\ b.respstat \in {"B", "C"} =>
                      /\ f.result.success = FALSE
                      /\ f.result.gatewayHttpStatusCode = 400
                      /\ m.type = "str"
                      /\ StartsWith(m.text, IF b.respstat = "B"
                                            THEN "Please retry the request."
                                            ELSE "Refund failed.")

\* C15: an inquiry answered with a status outside 2xx, 401 or another, gives
\* success=false with that status, the original payment transaction id as the
\* result's transaction id, and neither a void nor a refund call.
C15_InquiryTransportFailure ==
    \A w \in Workers :
        LET f == frame[w]
            a == f.answers[1].answer
        IN  (Answered(f, 1, "inquire") /\ ~a.raised /\ a.status_code \notin 200..299) =>
                /\ f.result.success = FALSE
                /\ f.result.gatewayHttpStatusCode = a.status_code
                /\ f.result.transactionId = f.request.paymentTransactionId
                /\ OpsAfter(f, 1) = {}

\* the canonical statuses: the values of GatewayResponses
CanonicalStatuses == {GatewayResponses[k] : k \in DOMAIN GatewayResponses}

\* an adapter method was called and has returned its result
AdapterReturned(f) == AdapterInvoked(f) /\ Responded(f) /\ f.result.returned

\* C16 as stated: the status of every result an adapter returns is one of
\* 200, 400, 401, 403, 404, 409, 422, 429, 500, 503.
C16_CanonicalStatusEnumerated ==
    \A w \in Workers :
        LET f == frame[w]
        IN  AdapterReturned(f) => f.result.gatewayHttpStatusCode \in CanonicalStatuses

\* C16 amended: the status of every result an adapter returns is one of the
\* canonical statuses, or it is the HTTP status of the last CardConnect
\* response, which is passed through unchanged when it is not 200.
C16_CanonicalStatus ==
    \A w \in Workers :
        LET f == frame[w]
            a == f.answers[Len(f.answers)].answer
        IN  AdapterReturned(f) =>
                \/ f.result.gatewayHttpStatusCode \in CanonicalStatuses
                \/ /\ f.processor = "CardConnect"
                   /\ Len(f.answers) >= 1
                   /\ ~a.raised
                   /\ a.status_code # 200
                   /\ f.result.gatewayHttpStatusCode = a.status_code

\* a CardConnect refund call answered 502, returned as status 502
C16_Witness ==
    \E w \in Workers :
        LET f == frame[w]
        IN  /\ AdapterReturned(f)
            /\ f.processor = "CardConnect"
            /\ Answered(f, 2, "refund")
            /\ ~f.answers[2].answer.raised
            /\ f.answers[2].answer.status_code = 502
            /\ f.result.gatewayHttpStatusCode = 502

\* C17 as stated: every result an adapter returns with a status other than 200
\* carries a message that is not null and is a text string.
C17_FailureMessageIsText ==
    \A w \in Workers :
        LET f == frame[w]
        IN  (AdapterReturned(f) /\ f.result.gatewayHttpStatusCode # 200) =>
                f.result.responseMessage.type = "str"

\* C17 amended: every result an adapter returns with a status other than 200
\* carries a message that is not null.  The message is a text string, except
\* after a Payload vendor fault of a recognized category: its message is the
\* fault's response payload or attribute set (a dict), unless process_payment
\* finds the card-number detail in the payload and returns that text.
C17_FailureMessage ==
    \A w \in Workers :
        LET f == frame[w]
            m == f.result.responseMessage
            a == f.answers[Len(f.answers)].answer
            recognized ==
                /\ f.processor = "Payload"
                /\ Len(f.answers) >= 1
                /\ a.raised
                /\ ~ExceptMatches({"ValueError", "TransactionDeclined"}, a)
                /\ ExceptMatches(PayloadTupleTypes, a)
                /\ a.type \in DOMAIN GatewayResponses
        IN  (AdapterReturned(f) /\ f.result.gatewayHttpStatusCode # 200) =>
                /\ m # NoneMessage
                /\ m.type # "str" => (recognized /\ m.type = "dict")
                /\ (recognized /\ f.request.endpoint = "processPayment"
                        /\ a.response = "card_number") => m.type = "str"

\* a Payload refund whose lookup raised NotFound: status 404, a dict as message
C17_Witness ==
    \E w \in Workers :
        LET f == frame[w]
        IN  /\ AdapterReturned(f)
            /\ Answered(f, 1, "Payment.get")
            /\ f.answers[1].answer.raised
            /\ f.answers[1].answer.type = "NotFound"
            /\ f.result.gatewayHttpStatusCode = 404
            /\ f.result.responseMessage.type = "dict"

\* C18: every failed result of ProcessRefund, of either adapter, carries a
\* transaction id that is not null.
C18_FailedRefundHasTransactionId ==
    \A w \in Workers :
        LET f == frame[w]
        IN  (AdapterReturned(f) /\ f.request.endpoint = "processRefund"
                /\ f.result.success = FALSE) =>
                f.result.transactionId # None

\* the upstream answered with a fault, or (CardConnect) with a status other than 200
FailedAnswer(f, a) ==
    IF f.processor = "CardConnect" THEN a.raised \/ a.status_code # 200 ELSE a.raised

\* C19: within one invocation no upstream operation is called twice, and a
\* failed call is the last call of the invocation: the adapter returns a
\* failure result and calls nothing after it.
C19_NoRetries ==
    \A w \in Workers :
        LET f == frame[w]
        IN  /\ \A i, j \in 1..Len(f.calls) : f.calls[i].op = f.calls[j].op => i = j
            /\ \A i \in 1..Len(f.answers) :
                  FailedAnswer(f, f.answers[i].answer) =>
                      /\ i = Len(f.calls)
                      /\ AdapterReturned(f)
                      /\ f.result.success = FALSE
                      /\ f.result.gatewayHttpStatusCode # 200

\* the void call failed to connect after the inquiry: two calls, status 500
C19_Witness ==
    \E w \in Workers :
        LET f == frame[w]
        IN  /\ AdapterReturned(f)
            /\ Answered(f, 2, "void")
            /\ f.answers[2].answer.raised
            /\ Len(f.calls) = 2
            /\ f.calls[1].op = "inquire" /\ f.calls[2].op = "void"
            /\ f.result.gatewayHttpStatusCode = 500

\* C20: Payload ProcessRefund of a payment whose status is 'voided', whatever
\* its funding status: Payment.get is the only call, and the result has
\* success=true, status 200, no refund transaction id and the already-voided
\* message.
C20_AlreadyVoided ==
    \A w \in Workers :
        LET f == frame[w]
            a == f.answers[1].answer
        IN  (Answered(f, 1, "Payment.get") /\ ~a.raised /\ a.status = "voided") =>
                /\ AdapterReturned(f)
                /\ Len(f.calls) = 1
                /\ f.result.success = TRUE
                /\ f.result.gatewayHttpStatusCode = 200
                /\ f.result.transactionId = None
                /\ f.result.responseMessage =
                      Str("Payment transaction has already been voided.  No further action has been taken.")

\* a voided payment whose funding status is pending
C20_Witness ==
    \E w \in Workers :
        LET f == frame[w]
            a == f.answers[1].answer
        IN  /\ AdapterReturned(f)
            /\ Answered(f, 1, "Payment.get")
            /\ ~a.raised /\ a.status = "voided" /\ a.funding_status = "pending"
            /\ f.result.success = TRUE
            /\ f.response_status = 200

\* how many times invocation f called the upstream operation op
CallCount(f, op) == Cardinality({i \in 1..Len(f.calls) : f.calls[i].op = op})

\* no call of the vendor SDK raised during invocation f
NoVendorFault(f) == \A i \in 1..Len(f.answers) : ~f.answers[i].answer.raised

\* C21: Payload ProcessRefund of a payment that is not voided.  Funding status
\* pending: one update-to-voided call (unless the SDK raised before it) and no
\* create-refund; batched: one create-refund call for the payment's amount and
\* the original transaction id, and no void; any other funding status: no
\* further call, success=false with status 400.
C21_RefundByFundingStatus ==
    \A w \in Workers :
        LET f == frame[w]
            a == f.answers[1].answer
        IN  (AdapterReturned(f) /\ Answered(f, 1, "Payment.get")
                /\ ~a.raised /\ a.status # "voided") =>
                /\ a.funding_status = "pending" =>
                      /\ CallCount(f, "Refund.create") = 0
                      /\ NoVendorFault(f) => CallCount(f, "Transaction.update") = 1
                /\ a.funding_status = "batched" =>
                      /\ CallCount(f, "Transaction.get") = 0
                      /\ CallCount(f, "Transaction.update") = 0
                      /\ CallCount(f, "Refund.create") = 1
                      /\ \A i \in 1..Len(f.calls) :
                            f.calls[i].op = "Refund.create" =>
                                /\ f.calls[i].amount = a.amount
                                /\ f.calls[i].retref = f.request.paymentTransactionId
                /\ a.funding_status \notin {"pending", "batched"} =>
                      /\ Len(f.calls) = 1
                      /\ f.result.success = FALSE
                      /\ f.result.gatewayHttpStatusCode = 400

\* the calls of the vendor SDK that carry a description
DescribedOps == {"Payment.create", "Transaction.update", "Refund.create"}

\* C22: the description of every Payload call that carries one is the first
\* 128 characters of the request's comment: never longer than 128, and the
\* whole comment when that has at most 128 characters.
C22_TruncationLaw ==
    \A w \in Workers :
        LET f == frame[w]
            c == f.request.comment
        IN  \A i \in 1..Len(f.calls) :
                (f.processor = "Payload" /\ f.calls[i].op \in DescribedOps) =>
                    LET d == f.calls[i].description
                    IN  /\ c # None /\ d # None
                        /\ Len(d) <= 128
                        /\ d = SubSeq(c, 1, Len(d))
                        /\ Len(c) <= 128 => d = c
                        /\ Len(c) > 128 => Len(d) = 128

\* a refund created with a 129-character comment cut to 128
C22_Witness ==
    \E w \in Workers :
        LET f == frame[w]
        IN  /\ Len(f.calls) = 2
            /\ f.calls[2].op = "Refund.create"
            /\ Len(f.request.comment) = 129
            /\ Len(f.calls[2].description) = 128

\* the canonical status named after each recognized fault type of C23
FaultStatus(t) ==
    CASE t = "InvalidAttributes" -> 422
      [] t = "Unauthorized" -> 401
      [] t = "NotFound" -> 404
      [] t = "TooManyRequests" -> 429
      [] t = "ServiceUnavailable" -> 503
      [] t = "BadRequest" -> 400
      [] t = "Forbidden" -> 403

\* C23: Payload ProcessPayment answers a vendor fault of type
\* InvalidAttributes, Unauthorized, NotFound, TooManyRequests,
\* ServiceUnavailable, BadRequest or Forbidden with success=false and the
\* status 422, 401, 404, 429, 503, 400 or 403.
C23_PaymentFaultMapping ==
    \A w \in Workers :
        LET f == frame[w]
            a == f.answers[1].answer
        IN  (Answered(f, 1, "Payment.create") /\ a.raised
                /\ a.type \in {"InvalidAttributes", "Unauthorized", "NotFound", "TooManyRequests",
                               "ServiceUnavailable", "BadRequest", "Forbidden"}) =>
                /\ AdapterReturned(f)
                /\ f.result.success = FALSE
                /\ f.result.gatewayHttpStatusCode = FaultStatus(a.type)

\* a rate-limited payment: TooManyRequests answered as 429
C23_Witness ==
    \E w \in Workers :
        LET f == frame[w]
        IN  /\ AdapterReturned(f)
            /\ Answered(f, 1, "Payment.create")
            /\ f.answers[1].answer.raised
            /\ f.answers[1].answer.type = "TooManyRequests"
            /\ f.result.gatewayHttpStatusCode = 429

\* C24: both endpoints answer 400 for an adapter result whose status is 500
\* or above, never answer a 5xx status after an adapter was called, and answer
\* 200 exactly when the adapter returned a result with status 200.
C24_ServerErrorsCollapsed ==
    \A w \in Workers :
        LET f == frame[w]
        IN  (AdapterInvoked(f) /\ Responded(f)) =>
                /\ (f.result.returned /\ f.result.gatewayHttpStatusCode >= 500) =>
                      f.response_status = 400
                /\ f.response_status \notin 500..599
                /\ f.response_status = 200 <=>
                      (f.result.returned /\ f.result.gatewayHttpStatusCode = 200)

\* a Payload refund whose lookup raised InternalServerError: 500 answered as 400
C24_Witness ==
    \E w \in Workers :
        LET f == frame[w]
        IN  /\ AdapterReturned(f)
            /\ f.request.endpoint = "processRefund"
            /\ f.processor = "Payload"
            /\ f.result.gatewayHttpStatusCode = 500
            /\ f.response_status = 400

\* no request is being handled
Quiescent == \A w \in DOMAIN frame : frame[w].pc \in {"idle", "responded"}

\* C25: an adapter invocation leaves no trace outside its own locals: when no
\* invocation is in progress, the module-level state of the vendor client is
\* what it was when the service started.
C25_NoStateOutlivesInvocation == Quiescent => pl_api_key = None

\* C26: every call of the vendor SDK made by a Payload invocation is
\* authenticated with the API key of that invocation's own request, also when
\* another invocation with another key is in progress.
C26_OwnApiKey ==
    \A w \in DOMAIN frame :
        LET f == frame[w]
        IN  f.processor = "Payload" =>
                \A i \in 1..Len(f.calls) : f.calls[i].auth = f.request.credentials.apiKey

ResponseIndexes(f) ==
    {i \in 1..Len(f.answers) :
        /\ ~f.answers[i].answer.raised
        /\ f.processor = "CardConnect" => f.answers[i].answer.text.json # "empty"}

\* the audit trail items hold the responses of f, in the order of the calls
ResponsesInAuditTrail(f) ==
    LET items == f.result.gatewayResponseData.items
    IN  \E g \in [ResponseIndexes(f) -> 1..Len(items)] :
            /\ \A i \in ResponseIndexes(f) :
                  /\ items[g[i]].op = f.answers[i].op
                  /\ items[g[i]].tag \in {"json", "text"}
            /\ \A i, j \in ResponseIndexes(f) : i < j => g[i] < g[j]

\* C27: the audit trail of every result, of either adapter, holds each
\* upstream response received during the invocation, in the order of the calls.
C27_AuditTrailComplete ==
    \A w \in Workers :
        AdapterReturned(frame[w]) => ResponsesInAuditTrail(frame[w])

\* C29: a CardConnect void or refund call is the second call of its
\* invocation and follows an inquiry answered 200 with respstat Approved; after
\* an inquiry that raised, was answered with another status or with a body
\* that does not parse, the invocation returns without a further call.
C29_InquireFirst ==
    \A w \in Workers :
        LET f == frame[w]
            a == f.answers[1].answer
        IN  /\ \A i \in 1..Len(f.calls) :
                  f.calls[i].op \in {"void", "refund"} =>
                      /\ i = 2
                      /\ f.calls[1].op = "inquire"
                      /\ Answered(f, 1, "inquire")
                      /\ Ok200Object(a)
                      /\ a.text.respstat = "A"
            /\ (Answered(f, 1, "inquire")
                    /\ (a.raised \/ a.status_code # 200 \/ Malformed(a))) =>
                  (Responded(f) /\ OpsAfter(f, 1) = {})

\* inquire, then refund, then the refund answer interpreted as a success
C29_Witness ==
    \E w \in Workers :
        LET f == frame[w]
        IN  /\ AdapterReturned(f)
            /\ Len(f.calls) = 2
            /\ f.calls[1].op = "inquire" /\ f.calls[2].op = "refund"
            /\ Answered(f, 2, "refund")
            /\ f.result.success = TRUE
            /\ f.result.responseMessage = Str("Successful refund transaction.")

\* C30: no invocation calls both a void and a refund operation, on either
\* adapter: CardConnect void and refund exclude each other, and so do Payload's
\* Transaction.get / update and Refund.create.
C30_VoidOrRefundNotBoth ==
    \A w \in Workers :
        LET f == frame[w]
        IN  /\ CallCount(f, "void") = 0 \/ CallCount(f, "refund") = 0
            /\ \/ CallCount(f, "Transaction.get") + CallCount(f, "Transaction.update") = 0
               \/ CallCount(f, "Refund.create") = 0

\* a declined void: the invocation ends after the void call, with a failure
C30_Witness ==
    \E w \in Workers :
        LET f == frame[w]
        IN  /\ AdapterReturned(f)
            /\ SecondAnswered200(f, "void")
            /\ f.answers[2].answer.text.respstat = "C"
            /\ f.result.success = FALSE
            /\ Len(f.calls) = 2

\* C31: in every result an adapter returns, success=true goes with status 200:
\* no path, a fault raised after the outcome was interpreted included, returns
\* success=true with another status.
C31_SuccessImpliesApproved ==
    \A w \in Workers :
        LET f == frame[w]
        IN  (AdapterReturned(f) /\ f.result.success = TRUE) =>
                f.result.gatewayHttpStatusCode = 200

\* C32: in every result the CardConnect adapter returns, of a payment or of a
\* refund, status 200 goes with success=true: a decline, a transport failure
\* or a fault never leaves the initial status 200 in a result with
\* success=false.
C32_ApprovedImpliesSuccess ==
    \A w \in Workers :
        LET f == frame[w]
        IN  (AdapterReturned(f) /\ f.processor = "CardConnect"
                /\ f.result.gatewayHttpStatusCode = 200) =>
                f.result.success = TRUE

\* a declined authorization answered 200 by the vendor: the result carries
\* status 400 with success=false
C32_Witness ==
    \E w \in Workers :
        LET f == frame[w]
        IN  /\ AdapterReturned(f)
            /\ f.processor = "CardConnect"
            /\ Answered(f, 1, "auth")
            /\ Ok200Object(f.answers[1].answer)
            /\ f.answers[1].answer.status_code = 200
            /\ f.answers[1].answer.text.respstat = "C"
            /\ f.result.success = FALSE
            /\ f.result.gatewayHttpStatusCode = 400

C34_PositiveAndExplicitAmounts ==
    \A w \in Workers :
        LET f == frame[w]
        IN  \A i \in 1..Len(f.calls) :
                /\ f.calls[i].op \in {"auth", "Payment.create"} =>
                      /\ f.calls[i].amount # NoneAmount
                      /\ f.calls[i].amount[1] > 0
                /\ f.calls[i].op = "refund" => f.calls[i].amount # NoneAmount

\* C35: every CardConnect ProcessRefund result that reports a successful void,
\* by authcode REVERS or by the missing-authcode convention, carries the
\* message 'Successfully voided transaction.'.
C35_SuccessfulVoidMessage ==
    \A w \in Workers :
        LET f == frame[w]
        IN  (AdapterReturned(f) /\ Answered(f, 2, "void") /\ f.result.success = TRUE) =>
                f.result.responseMessage = Str("Successfully voided transaction.")

\* C36: Payload ProcessPayment makes exactly one Payment.create call for every
\* payment request the endpoint passes to it, a request without a comment
\* included, and the result it returns is the outcome of that call.
C36_OneCreatePaymentCall ==
    \A w \in Workers :
        LET f == frame[w]
        IN  (f.processor = "Payload" /\ f.request.endpoint = "processPayment") =>
                /\ CallCount(f, "Payment.create") = 1
                /\ Len(f.calls) = 1
                /\ Responded(f) =>
                      /\ Answered(f, 1, "Payment.create")
                      /\ f.result.success = ~f.answers[1].answer.raised

\* the fault types ProcessPayment distinguishes
DistinguishedFaultTypes == PayloadTupleTypes \cup {"TransactionDeclined", "ValueError"}

\* the answer to the last upstream call of invocation f
LastAnswer(f) == f.answers[Len(f.answers)].answer

\* invocation f of the Payload adapter has returned after its last upstream
\* call raised a fault
ReturnedAfterSomeFault(f, endpoint) ==
    /\ AdapterReturned(f)
    /\ f.processor = "Payload"
    /\ f.request.endpoint = endpoint
    /\ Len(f.answers) = Len(f.calls)
    /\ Len(f.answers) >= 1
    /\ LastAnswer(f).raised

\* ... a fault of type t
ReturnedAfterFault(f, endpoint, t) ==
    ReturnedAfterSomeFault(f, endpoint) /\ LastAnswer(f).type = t

\* C37: a Payload ProcessRefund whose upstream call raised a fault of one of
\* the types ProcessPayment distinguishes returns the same canonical status as
\* a Payload ProcessPayment whose call raised a fault of that type.
C37_RefundFaultsMappedAsPaymentFaults ==
    \A v, w \in DOMAIN frame :
        (/\ ReturnedAfterSomeFault(frame[v], "processPayment")
         /\ LastAnswer(frame[v]).type \in DistinguishedFaultTypes
         /\ ReturnedAfterFault(frame[w], "processRefund", LastAnswer(frame[v]).type)) =>
            /\ frame[v].result.gatewayHttpStatusCode = frame[w].result.gatewayHttpStatusCode
            /\ frame[v].result.success = FALSE
            /\ frame[w].result.success = FALSE

\* a payment and a refund that both met TransactionDeclined: the payment by
\* its own except clause, the refund by the clause of the tuple
C37_Witness ==
    \E v, w \in DOMAIN frame :
        /\ ReturnedAfterFault(frame[v], "processPayment", "TransactionDeclined")
        /\ ReturnedAfterFault(frame[w], "processRefund", "TransactionDeclined")
        /\ Len(frame[w].calls) = 3
        /\ frame[v].result.statusCode = "declined"
        /\ frame[w].result.responseMessage = Str("Unrecognized Payload error response")
        /\ frame[w].result.gatewayHttpStatusCode = 400

\* the fault classes of the vendor SDK, and those the adapter has a mapping for
PayloadVendorTypes == PayloadTupleTypes \cup {"TransactionDeclined", "UnknownResponse"}

RecognizedFaultTypes == PayloadTupleTypes \cup {"TransactionDeclined"}

\* C38: a Payload result that follows a vendor fault of a category the adapter
\* does not recognize is success=false with status 400 and the message
\* 'Unrecognized Payload error response'; the answer 422 'Unknown Payload
\* response type' is given only after a fault that is not the vendor's.
C38_UnrecognizedVendorFault ==
    \A w \in Workers :
        LET f == frame[w]
            n == Len(f.answers)
            a == f.answers[n].answer
        IN  (AdapterReturned(f) /\ f.processor = "Payload"
                /\ n >= 1 /\ n = Len(f.calls) /\ a.raised) =>
                /\ a.type \in PayloadVendorTypes \ RecognizedFaultTypes =>
                      /\ f.result.success = FALSE
                      /\ f.result.gatewayHttpStatusCode = 400
                      /\ f.result.responseMessage = Str("Unrecognized Payload error response")
                /\ f.result.responseMessage = Str("Unknown Payload response type") =>
                      /\ f.result.gatewayHttpStatusCode = 422
                      /\ a.type \notin PayloadVendorTypes

\* the upstream operations that reverse a payment
ReversalOps == {"void", "refund", "Transaction.update", "Refund.create"}

\* the reversals invocation f has issued: the operation and the transaction
ReversalsIssued(f) ==
    {<<f.processor, f.calls[i].op, f.calls[i].retref>> :
        i \in {j \in 1..Len(f.calls) : f.calls[j].op \in ReversalOps}}

\* the reversal that what invocation f observed of the payment calls for, or
\* None: a voidable or refundable inquiry answer, a payment looked up as
\* batched, a pending payment's transaction fetched
ReversalObserved(f) ==
    LET a == f.answers[1].answer
    IN  IF f.processor = "CardConnect" /\ Answered(f, 1, "inquire") /\ Ok200Object(a)
             /\ a.text.respstat = "A"
        THEN IF a.text.voidable = "Y" THEN "void"
             ELSE IF a.text.refundable = "Y" THEN "refund"
             ELSE None
        ELSE IF f.processor = "Payload" /\ Answered(f, 1, "Payment.get") /\ ~a.raised
                  /\ a.status # "voided" /\ f.request.comment # None
        THEN IF a.funding_status = "batched" THEN "Refund.create"
             ELSE IF a.funding_status = "pending" /\ Answered(f, 2, "Transaction.get")
                       /\ ~f.answers[2].answer.raised
             THEN "Transaction.update"
             ELSE None
        ELSE None

\* C39: the core does not prevent a duplicate reversal: when one invocation
\* has issued a void or a refund for a payment, another invocation that
\* observes the same payment as voidable or refundable issues its reversal
\* all the same.
C39_DuplicateReversalNotPrevented ==
    \A v, w \in DOMAIN frame :
        (/\ v # w
         /\ frame[v].request.paymentTransactionId = frame[w].request.paymentTransactionId
         /\ ReversalsIssued(frame[v]) # {}
         /\ ReversalObserved(frame[w]) # None) =>
            <<frame[w].processor, ReversalObserved(frame[w]),
              frame[w].request.paymentTransactionId>> \in ReversalsIssued(frame[w])

\* two invocations for one payment, both waiting for the answer to the same
\* reversal of it
C39_Witness ==
    \E v, w \in DOMAIN frame :
        /\ v # w
        /\ frame[v].pc \in {"cc_void", "cc_refund", "pl_transaction_update", "pl_refund_create"}
        /\ frame[w].pc = frame[v].pc
        /\ frame[v].request.paymentTransactionId = frame[w].request.paymentTransactionId
        /\ ReversalsIssued(frame[v]) # {}
        /\ ReversalsIssued(frame[v]) = ReversalsIssued(frame[w])

====
